---- MODULE Spec2Model ----
(***************************************************************************)
(* Model of app.py, the points-table dashboard: make_unique, load_sheet,   *)
(* build_leaderboard and the page run that loads the sheets and renders    *)
(* the tabs.                                                               *)
(*                                                                         *)
(* Text is a sequence of one-character strings, so that the regular        *)
(* expressions and the f-strings of the source act on characters.  A       *)
(* number parsed by pd.to_numeric is the exact decimal [num, exp], its     *)
(* value num / 10^exp, in lowest terms of 10 (float64 rounding is not      *)
(* modelled: the cells of the model are a few characters long).            *)
(***************************************************************************)
EXTENDS Integers, Sequences, FiniteSets, TLC

VARIABLES
    pc,        \* harness: "start" -> "loaded" -> "built"; page run: see PageInit
    data,      \* what ws.get_all_values() returned: a sequence of rows of cells
    idx,       \* total_row_index
    df,        \* df_raw, the table load_sheet built
    summary,   \* the table build_leaderboard returned
    indexer,   \* the row order sort_values chose: indexer[rank] = position in pod_cols
    msgs,      \* the st.error messages, in order
    raised,    \* the exception that left the call uncaught, or "none"
    secrets,   \* st.secrets: [cred : BOOLEAN, keys : set of secret keys]
    sheet_ids, \* the sorted list of (idx) discovered in the secrets
    pos,       \* how many entries of sheet_ids the load loop has consumed
    dsets,     \* the (label, df_raw, df_leader) triples appended so far
    loads,     \* number of load_sheet calls made
    tabs       \* the tab labels rendered, <<>> before rendering

vars == <<pc, data, idx, df, summary, indexer, msgs, raised,
          secrets, sheet_ids, pos, dsets, loads, tabs>>

pageVars == <<secrets, sheet_ids, pos, dsets, loads, tabs>>

(***************************************************************************)
(* Bounds of the model.                                                    *)
(***************************************************************************)
MaxCols == 3      \* columns of a sheet
MaxRows == 2      \* data rows of a sheet in the function-level harness

(***************************************************************************)
(* Characters and text.                                                    *)
(***************************************************************************)
DigitChars == <<"0", "1", "2", "3", "4", "5", "6", "7", "8", "9">>

IsDigit(c) == \E i \in 1..Len(DigitChars) : DigitChars[i] = c

DigitVal(c) == (CHOOSE i \in 1..Len(DigitChars) : DigitChars[i] = c) - 1

UpperChars == <<"A","B","C","D","E","F","G","H","I","J","K","L","M",
                "N","O","P","Q","R","S","T","U","V","W","X","Y","Z">>

LowerChars == <<"a","b","c","d","e","f","g","h","i","j","k","l","m",
                "n","o","p","q","r","s","t","u","v","w","x","y","z">>

\* re.I: a character compared without regard to case
Lower(c) ==
    IF \E i \in 1..Len(UpperChars) : UpperChars[i] = c
    THEN LowerChars[CHOOSE i \in 1..Len(UpperChars) : UpperChars[i] = c]
    ELSE c

\* f"{n}" of a natural number
RECURSIVE ToStr(_)
ToStr(n) ==
    IF n < 10 THEN <<DigitChars[n + 1]>>
    ELSE Append(ToStr(n \div 10), DigitChars[(n % 10) + 1])

\* int() of a text of digits; 0 for the empty text
RECURSIVE DigitsValue(_)
DigitsValue(s) ==
    IF Len(s) = 0 THEN 0
    ELSE 10 * DigitsValue(SubSeq(s, 1, Len(s) - 1)) + DigitVal(s[Len(s)])

(***************************************************************************)
(* make_unique (app.py 25-35).                                             *)
(***************************************************************************)
RECURSIVE MakeUniqueLoop(_, _, _, _)
MakeUniqueLoop(headers, i, seen, unique) ==
    IF i > Len(headers) THEN unique
    ELSE LET h == headers[i] IN
         IF h \notin DOMAIN seen
         THEN MakeUniqueLoop(headers, i + 1, seen @@ (h :> 0), Append(unique, h))
         ELSE LET k == seen[h] + 1 IN
              MakeUniqueLoop(headers, i + 1, [seen EXCEPT ![h] = k],
                             Append(unique, h \o <<"_">> \o ToStr(k)))

\* a plausible slip: the counter is formatted before it is incremented
RECURSIVE MakeUniqueLoopStale(_, _, _, _)
MakeUniqueLoopStale(headers, i, seen, unique) ==
    IF i > Len(headers) THEN unique
    ELSE LET h == headers[i] IN
         IF h \notin DOMAIN seen
         THEN MakeUniqueLoopStale(headers, i + 1, seen @@ (h :> 0), Append(unique, h))
         ELSE LET k == seen[h] + 1 IN
              MakeUniqueLoopStale(headers, i + 1, [seen EXCEPT ![h] = k],
                                  Append(unique, h \o <<"_">> \o ToStr(seen[h])))

make_unique_stale(headers) == MakeUniqueLoopStale(headers, 1, <<>>, <<>>)

make_unique(headers) == MakeUniqueLoop(headers, 1, <<>>, <<>>)

(***************************************************************************)
(* load_sheet, from the fetched values on (app.py 60-67).                  *)
(***************************************************************************)
EmptyFrame == [columns |-> <<>>, rows |-> <<>>]

MsgNoDataRows == "No data rows found"
MsgWorksheetNotFound == "Worksheet not found"
MsgRowIndex == "Totals row index out of range"
MsgNoPodColumns == "No POD columns found"
MsgNoCredential == "gcp_service_account not found in secrets"
MsgNoSheetIds == "No sheet IDs found in secrets"

\* [df, msgs]: the table returned and the messages reported
FrameOfValues(values) ==
    IF Len(values) < 2
    THEN [df |-> EmptyFrame, msgs |-> <<MsgNoDataRows>>]
    ELSE [df |-> [columns |-> make_unique(Head(values)), rows |-> Tail(values)],
          msgs |-> <<>>]

(***************************************************************************)
(* build_leaderboard (app.py 70-94).                                       *)
(***************************************************************************)
\* re.search(r"pod", c, re.I)
ReSearchPod(c) ==
    \E i \in 1..(Len(c) - 2) :
        Lower(c[i]) = "p" /\ Lower(c[i + 1]) = "o" /\ Lower(c[i + 2]) = "d"

\* the characters [^0-9.\-] does not match, which str.replace keeps
KeptByClean(c) == IsDigit(c) \/ c = "." \/ c = "-"

\* .str.replace(r"[^0-9.\-]", "", regex=True)
Clean(cell) == SelectSeq(cell, KeptByClean)

NaN == [num |-> 0, exp |-> -1]

Zero == [num |-> 0, exp |-> 0]

IsNaN(v) == v.exp < 0

RECURSIVE Normalize(_)
Normalize(v) ==
    IF v.exp > 0 /\ v.num % 10 = 0
    THEN Normalize([num |-> v.num \div 10, exp |-> v.exp - 1])
    ELSE v

\* pd.to_numeric(errors="coerce") of one text: an optional leading minus sign,
\* then digits with at most one decimal point and at least one digit
ToNumeric(s) ==
    LET neg  == Len(s) > 0 /\ s[1] = "-"
        body == IF neg THEN Tail(s) ELSE s
        dots == {i \in 1..Len(body) : body[i] = "."}
        ok   == /\ \A i \in 1..Len(body) : IsDigit(body[i]) \/ body[i] = "."
                /\ Cardinality(dots) <= 1
                /\ \E i \in 1..Len(body) : IsDigit(body[i])
        p    == IF dots = {} THEN Len(body) + 1 ELSE CHOOSE i \in dots : TRUE
        int  == SubSeq(body, 1, p - 1)
        frac == SubSeq(body, p + 1, Len(body))
        mag  == DigitsValue(int \o frac)
    IN  IF ok
        THEN Normalize([num |-> IF neg THEN 0 - mag ELSE mag, exp |-> Len(frac)])
        ELSE NaN

\* .fillna(0)
FillNa(v) == IF IsNaN(v) THEN Zero ELSE v

\* a < b for two numbers
Less(a, b) == a.num * (10 ^ b.exp) < b.num * (10 ^ a.exp)

\* total_row[key]: every cell whose column label is key, left to right
CellsLabelled(columns, row, key) ==
    LET at == SelectSeq([j \in 1..Len(columns) |-> j],
                        LAMBDA j : columns[j] = key)
    IN  [k \in 1..Len(at) |-> row[at[k]]]

\* total_row[pod_cols]: label-based selection, one group of cells per key
RECURSIVE SelectLabels(_, _, _)
SelectLabels(columns, row, keys) ==
    IF keys = <<>> THEN <<>>
    ELSE CellsLabelled(columns, row, Head(keys))
         \o SelectLabels(columns, row, Tail(keys))

\* the totals Series of lines 80-86
Totals(columns, total_row, pod_cols) ==
    LET cells == SelectLabels(columns, total_row, pod_cols)
    IN  [k \in 1..Len(cells) |-> FillNa(ToNumeric(Clean(cells[k])))]

\* ''.join(filter(str.isdigit, c)) or c
PodNumber(c) ==
    LET digits == SelectSeq(c, IsDigit)
    IN  IF digits = <<>> THEN c ELSE digits

Orderings(n) ==
    {p \in [1..n -> 1..n] : \A i, j \in 1..n : i # j => p[i] # p[j]}

\* forgetting ascending=False
SortIndexersAscending(totals) ==
    {p \in Orderings(Len(totals)) :
        \A i, j \in 1..Len(totals) : i < j => ~Less(totals[p[j]], totals[p[i]])}

\* sort_values("Total Points", ascending=False) with the default kind
\* ("quicksort", which pandas documents as not stable): any order of the rows
\* in which the points do not increase
SortIndexers(totals) ==
    {p \in Orderings(Len(totals)) :
        \A i, j \in 1..Len(totals) : i < j => ~Less(totals[p[i]], totals[p[j]])}

\* forgetting reset_index(drop=True): the index keeps the labels from before
\* the sort
SummaryNoResetIndex(pod_numbers, totals, ix) ==
    [k \in 1..Len(ix) |->
        [Rank |-> ix[k], PODNumber |-> pod_numbers[ix[k]],
         TotalPoints |-> totals[ix[k]]]]

\* lines 88-94: the sorted frame, reindexed 0..N-1, with Rank = index + 1
Summary(pod_numbers, totals, ix) ==
    [k \in 1..Len(ix) |->
        [Rank |-> (k - 1) + 1, PODNumber |-> pod_numbers[ix[k]],
         TotalPoints |-> totals[ix[k]]]]

Failed(msg) ==
    [summary |-> <<>>, indexer |-> <<>>, msgs |-> <<msg>>, raised |-> "none"]

Raised(exc) ==
    [summary |-> <<>>, indexer |-> <<>>, msgs |-> <<>>, raised |-> exc]

\* df_raw.iloc[i] succeeds
IlocInRange(frame, i) == (0 - Len(frame.rows)) <= i /\ i < Len(frame.rows)

\* df_raw.iloc[i]
Iloc(frame, i) ==
    frame.rows[IF i < 0 THEN Len(frame.rows) + i + 1 ELSE i + 1]

PodCols(frame) == SelectSeq(frame.columns, ReSearchPod)

\* every way build_leaderboard(frame, i) can end
build_leaderboard(frame, i) ==
    IF ~IlocInRange(frame, i) THEN {Failed(MsgRowIndex)}
    ELSE IF PodCols(frame) = <<>> THEN {Failed(MsgNoPodColumns)}
    ELSE LET pod_cols    == PodCols(frame)
             totals      == Totals(frame.columns, Iloc(frame, i), pod_cols)
             pod_numbers == [k \in 1..Len(pod_cols) |-> PodNumber(pod_cols[k])]
         IN  IF Len(totals) # Len(pod_numbers)
             THEN {Raised("ValueError")}  \* pd.DataFrame: arrays of unequal length
             ELSE {[summary |-> Summary(pod_numbers, totals, ix), indexer |-> ix,
                    msgs |-> <<>>, raised |-> "none"] : ix \in SortIndexers(totals)}

(***************************************************************************)
(* Inputs of the function-level harness.                                   *)
(***************************************************************************)
CellPool ==
    { <<"$","2">>, <<"-","1">>, <<"1","-","2">>, <<"1",".","5">> }

SeqsOf(S, n) == [1..n -> S]

Blank == <<>>

\* a column of a sheet: its header and its cell in the totals row; a column
\* that is no POD column holds a label there
ColumnPool ==
    { [header |-> h, cell |-> c] : h \in { <<"P","o","d">>, <<"P","o","d","_","1">> },
                                   c \in CellPool }
    \cup { [header |-> <<"S","c","o","r","e">>, cell |-> <<"T","o","t","a","l">>] }

\* a sheet of n data rows, the last of which holds the totals, the rows above
\* it being blank
Grid(cols, n) ==
    <<[c \in 1..Len(cols) |-> cols[c].header]>>
    \o [j \in 1..n |-> IF j = n THEN [c \in 1..Len(cols) |-> cols[c].cell]
                       ELSE [c \in 1..Len(cols) |-> Blank]]

\* what get_all_values() can return: nothing, the one empty row of an empty
\* sheet, or a header row and data rows
Grids ==
    {<<>>, <<Blank>>} \cup
    UNION { { Grid(cols, n) : cols \in SeqsOf(ColumnPool, w), n \in 0..MaxRows }
            : w \in 1..MaxCols }

Indexes == (0 - (MaxRows + 1))..MaxRows

PageIdle ==
    /\ secrets = [cred |-> FALSE, keys |-> {}]
    /\ sheet_ids = <<>>
    /\ pos = 0
    /\ dsets = <<>>
    /\ loads = 0
    /\ tabs = <<>>

Init ==
    /\ pc = "start"
    /\ data \in Grids
    /\ idx \in Indexes
    /\ df = EmptyFrame
    /\ summary = <<>>
    /\ indexer = <<>>
    /\ msgs = <<>>
    /\ raised = "none"
    /\ PageIdle

\* load_sheet from the fetched values on
LoadSheet ==
    /\ pc = "start"
    /\ df' = FrameOfValues(data).df
    /\ msgs' = msgs \o FrameOfValues(data).msgs
    /\ pc' = "loaded"
    /\ UNCHANGED <<data, idx, summary, indexer, raised, pageVars>>

\* build_leaderboard(df_raw, total_row_index)
BuildLeaderboard ==
    /\ pc = "loaded"
    /\ \E out \in build_leaderboard(df, idx) :
        /\ summary' = out.summary
        /\ indexer' = out.indexer
        /\ msgs' = msgs \o out.msgs
        /\ raised' = out.raised
    /\ pc' = "built"
    /\ UNCHANGED <<data, idx, df, pageVars>>

Next == LoadSheet \/ BuildLeaderboard

Spec == Init /\ [][Next]_vars
(***************************************************************************)
(* The page run (app.py 239-275): discover the sheet IDs, load each sheet, *)
(* render the tabs.  pc goes "discover" -> "load" -> "rendered", or ends   *)
(* in "stopped" (st.stop()) or "crashed" (an exception nobody caught).     *)
(***************************************************************************)
TotalRowIndex == 12

SecretKeys == {"sheet_id", "sheet_id_1", "sheet_id_2", "sheet_id_3"}

\* re.match(r"sheet_id(?:_(\d+))?$", key): int(m.group(1)) if m.group(1) else 1
SheetIndexOf(key) ==
    CASE key = "sheet_id"   -> 1
      [] key = "sheet_id_1" -> 1
      [] key = "sheet_id_2" -> 2
      [] key = "sheet_id_3" -> 3

\* the idx of sheet_ids after sort(key=lambda x: x[0])
RECURSIVE SortedIndexes(_)
SortedIndexes(keys) ==
    IF keys = {} THEN <<>>
    ELSE LET k == CHOOSE x \in keys :
                      \A y \in keys : SheetIndexOf(x) <= SheetIndexOf(y)
         IN  <<SheetIndexOf(k)>> \o SortedIndexes(keys \ {k})

LiveName == "LIVE LEADERBOARD"
ChannelName == "Channel-View"
PodViewName == "POD-View"

Pod2 == [header |-> <<"P","o","d">>, cell |-> <<"$","2">>]
Pod1 == [header |-> <<"P","o","d","_","1">>, cell |-> <<"1",".","5">>]
Score == [header |-> <<"S","c","o","r","e">>, cell |-> <<"T","o","t","a","l">>]

\* the values a worksheet can hold when it is read
PageGrids ==
    {<<>>} \cup
    { Grid(cols, n) : cols \in { <<Score, Pod2, Pod1>>, <<Score>>, <<Pod2, Pod2, Pod1>> },
                      n \in {0, MaxRows, TotalRowIndex + 1} }

Loaded(frame, title, m) ==
    [kind |-> "returned", df |-> frame, title |-> title, msgs |-> m, raised |-> "none"]

\* every way load_sheet(sid, worksheet_name=name) can end (app.py 51-67)
load_sheet(cred, name) ==
    IF ~cred
    THEN \* get_gspread_client: st.error, st.stop()
         {[kind |-> "stopped", df |-> EmptyFrame, title |-> "",
           msgs |-> <<MsgNoCredential>>, raised |-> "none"]}
    ELSE \* open_by_key, worksheet or get_all_values raises an API or transport
         \* error: no handler
         {[kind |-> "raised", df |-> EmptyFrame, title |-> "",
           msgs |-> <<>>, raised |-> "APIError"]}
         \cup \* WorksheetNotFound is caught
         {Loaded(EmptyFrame, name, <<MsgWorksheetNotFound>>)}
         \cup
         {Loaded(FrameOfValues(g).df, name, FrameOfValues(g).msgs) : g \in PageGrids}

PageInit ==
    /\ pc = "discover"
    /\ secrets \in [cred : BOOLEAN, keys : SUBSET SecretKeys]
    /\ sheet_ids = <<>>
    /\ pos = 0
    /\ dsets = <<>>
    /\ loads = 0
    /\ tabs = <<>>
    /\ msgs = <<>>
    /\ raised = "none"
    /\ data = <<>>
    /\ idx = TotalRowIndex
    /\ df = EmptyFrame
    /\ summary = <<>>
    /\ indexer = <<>>

harnessVars == <<data, idx, df, summary, indexer>>

\* lines 240-249
Discover ==
    /\ pc = "discover"
    /\ sheet_ids' = SortedIndexes(secrets.keys)
    /\ IF secrets.keys = {}
       THEN /\ msgs' = Append(msgs, MsgNoSheetIds)
            /\ pc' = "stopped"
       ELSE /\ msgs' = msgs
            /\ pc' = "load"
    /\ UNCHANGED <<secrets, pos, dsets, loads, tabs, raised, harnessVars>>

\* the run ends inside a call: st.stop() or an uncaught exception
Ends(out) ==
    /\ pc' = (IF out.kind = "stopped" THEN "stopped" ELSE "crashed")
    /\ raised' = out.raised
    /\ UNCHANGED <<pos, dsets>>

\* lines 254-257: the iteration for idx == 1
LoadLive ==
    /\ pc = "load"
    /\ pos < Len(sheet_ids)
    /\ sheet_ids[pos + 1] = 1
    /\ loads' = loads + 1
    /\ \E live \in load_sheet(secrets.cred, LiveName) :
        IF live.kind # "returned"
        THEN msgs' = msgs \o live.msgs /\ Ends(live)
        ELSE \E built \in build_leaderboard(live.df, TotalRowIndex) :
                /\ msgs' = msgs \o live.msgs \o built.msgs
                /\ IF built.raised # "none"
                   THEN Ends([kind |-> "raised", raised |-> built.raised])
                   ELSE /\ dsets' = Append(dsets, [label |-> live.title, df_raw |-> live.df,
                                                   df_leader |-> built.summary])
                        /\ pos' = pos + 1
                        /\ UNCHANGED <<pc, raised>>
    /\ UNCHANGED <<secrets, sheet_ids, tabs, harnessVars>>

\* lines 258-262: the iteration for idx == 2
LoadViews ==
    /\ pc = "load"
    /\ pos < Len(sheet_ids)
    /\ sheet_ids[pos + 1] = 2
    /\ \E ch \in load_sheet(secrets.cred, ChannelName) :
        IF ch.kind # "returned"
        THEN /\ msgs' = msgs \o ch.msgs
             /\ loads' = loads + 1
             /\ Ends(ch)
        ELSE \E pod \in load_sheet(secrets.cred, PodViewName) :
                /\ msgs' = msgs \o ch.msgs \o pod.msgs
                /\ loads' = loads + 2
                /\ IF pod.kind # "returned"
                   THEN /\ pc' = (IF pod.kind = "stopped" THEN "stopped" ELSE "crashed")
                        /\ raised' = pod.raised
                        /\ pos' = pos
                        /\ dsets' = Append(dsets, [label |-> ch.title, df_raw |-> ch.df,
                                                   df_leader |-> <<>>])
                   ELSE /\ dsets' = dsets \o
                              << [label |-> ch.title, df_raw |-> ch.df, df_leader |-> <<>>],
                                 [label |-> pod.title, df_raw |-> pod.df, df_leader |-> <<>>] >>
                        /\ pos' = pos + 1
                        /\ UNCHANGED <<pc, raised>>
    /\ UNCHANGED <<secrets, sheet_ids, tabs, harnessVars>>

\* an idx that is neither 1 nor 2: the loop body does nothing
SkipSheet ==
    /\ pc = "load"
    /\ pos < Len(sheet_ids)
    /\ sheet_ids[pos + 1] \notin {1, 2}
    /\ pos' = pos + 1
    /\ UNCHANGED <<pc, secrets, sheet_ids, dsets, loads, tabs, msgs, raised, harnessVars>>

\* lines 274-275: st.tabs raises on an empty list of labels
RenderTabs ==
    /\ pc = "load"
    /\ pos = Len(sheet_ids)
    /\ IF dsets = <<>>
       THEN /\ pc' = "crashed"
            /\ raised' = "StreamlitAPIException"
            /\ tabs' = tabs
       ELSE /\ pc' = "rendered"
            /\ tabs' = [k \in 1..Len(dsets) |-> dsets[k].label]
            /\ raised' = raised
    /\ UNCHANGED <<secrets, sheet_ids, pos, dsets, loads, msgs, harnessVars>>

PageNext == Discover \/ LoadLive \/ LoadViews \/ SkipSheet \/ RenderTabs

SpecPage == PageInit /\ [][PageNext]_vars
(***************************************************************************)
(* Properties.                                                             *)
(***************************************************************************)
Range(f) == {f[i] : i \in DOMAIN f}

\* build_leaderboard returned a table (it neither reported an error nor raised)
Returned == pc = "built" /\ raised = "none" /\ summary # <<>>

\* the totals-row cells build_leaderboard selected, one per POD column when it
\* returned a table
SelectedCells == SelectLabels(df.columns, Iloc(df, idx), PodCols(df))

\* C1: whenever build_leaderboard returns a non-empty summary, its Rank column
\* is 1, 2, ..., N in row order, N being the number of entries.
C1_RanksAreOneToN ==
    Returned => \A k \in 1..Len(summary) : summary[k].Rank = k

\* C1 happens: a summary of three entries that the sort reordered
C1_Witness ==
    /\ Returned
    /\ Len(summary) = 3
    /\ indexer # <<1, 2, 3>>

\* C2: in every summary build_leaderboard returns, Total Points does not
\* increase from one rank to the next, unparseable and negative cells included.
C2_PointsNonIncreasing ==
    pc = "built" =>
        \A i, j \in 1..Len(summary) :
            i < j => ~Less(summary[i].TotalPoints, summary[j].TotalPoints)

\* C2 happens: three entries in strictly decreasing order, one of them
\* negative and one of them from a cell that did not parse
C2_Witness ==
    /\ Returned
    /\ Len(summary) = 3
    /\ Less(summary[2].TotalPoints, summary[1].TotalPoints)
    /\ Less(summary[3].TotalPoints, summary[2].TotalPoints)
    /\ summary[3].TotalPoints.num < 0
    /\ \E k \in 1..Len(SelectedCells) : IsNaN(ToNumeric(Clean(SelectedCells[k])))

\* C3: the ranking is stable: of two POD columns with equal Total Points, the
\* one further left in the header gets the smaller rank (stated here for the
\* calls whose total_row_index is a row offset from the top).
C3_TiesKeepColumnOrder ==
    (Returned /\ 0 <= idx) =>
        \A i, j \in 1..Len(summary) :
            (i < j /\ summary[i].TotalPoints = summary[j].TotalPoints)
                => indexer[i] < indexer[j]

\* C4: a total_row_index below 0 or at or above the number of data rows makes
\* build_leaderboard report the row-index error and return an empty table.
C4_OutOfRangeFails ==
    (pc = "built" /\ (idx < 0 \/ idx >= Len(df.rows)))
        => (MsgRowIndex \in Range(msgs) /\ summary = <<>>)

\* the cleaning C5 describes: digits and decimal points stay, a minus sign
\* stays only where it leads the remainder
RECURSIVE LeadingMinusClean(_, _)
LeadingMinusClean(cell, kept) ==
    IF cell = <<>> THEN kept
    ELSE LET c == Head(cell) IN
         IF IsDigit(c) \/ c = "." \/ (c = "-" /\ kept = <<>>)
         THEN LeadingMinusClean(Tail(cell), Append(kept, c))
         ELSE LeadingMinusClean(Tail(cell), kept)

\* C5: the totals value of each POD column is its cell with every character
\* removed that is not a digit, a decimal point or a leading minus sign,
\* parsed as a number, a remainder that does not parse being missing
\* (which this revision fills with 0).  Stated for the calls whose
\* total_row_index is a row offset from the top.
C5_OnlyLeadingMinusKept ==
    (Returned /\ 0 <= idx) =>
        \A r \in 1..Len(summary) :
            summary[r].TotalPoints =
                FillNa(ToNumeric(LeadingMinusClean(SelectedCells[indexer[r]], <<>>)))

\* C6: with a valid totals row and at least one POD column, when no selected
\* cell parses to a number build_leaderboard returns an empty summary and
\* reports no error.
C6_NothingParsesGivesEmptySummary ==
    ( /\ pc = "built"
      /\ raised = "none"
      /\ 0 <= idx /\ idx < Len(df.rows)
      /\ PodCols(df) # <<>>
      /\ \A k \in 1..Len(SelectedCells) : IsNaN(ToNumeric(Clean(SelectedCells[k]))) )
        => ( /\ summary = <<>>
             /\ MsgRowIndex \notin Range(msgs)
             /\ MsgNoPodColumns \notin Range(msgs) )

\* C7: the POD Number of every selected column is the maximal digit substring
\* of its header (read as widely as the words allow: the digits of the header
\* in order, which is that substring whenever the digits are adjacent), or the
\* header itself when it has no digit; and build_leaderboard does not fail on
\* headers that yield the same POD Number: the summary has one entry per
\* selected column.  Stated for a total_row_index that is a row offset from
\* the top.
C7_PodNumbersAndDuplicatesKept ==
    (pc = "built" /\ 0 <= idx /\ idx < Len(df.rows) /\ PodCols(df) # <<>>)
        => /\ raised = "none"
           /\ Len(summary) = Len(PodCols(df))
           /\ \A r \in 1..Len(summary) :
                LET h == PodCols(df)[indexer[r]]
                    d == summary[r].PODNumber
                IN  IF \E k \in 1..Len(h) : IsDigit(h[k])
                    THEN d = SelectSeq(h, IsDigit)
                    ELSE d = h

\* the number of earlier occurrences of headers[i]
EarlierOccurrences(headers, i) ==
    Cardinality({j \in 1..(i - 1) : headers[j] = headers[i]})

\* C8: make_unique returns the first occurrence of a name unchanged and its
\* k-th later occurrence as the name followed by '_' and k, in the order and
\* the number of the input; load_sheet names the columns so.
C8_OccurrenceCounterSuffix ==
    (pc # "start" /\ Len(data) >= 2) =>
        LET headers == Head(data) IN
        /\ Len(df.columns) = Len(headers)
        /\ \A i \in 1..Len(headers) :
            LET k == EarlierOccurrences(headers, i) IN
            df.columns[i] = IF k = 0 THEN headers[i]
                            ELSE headers[i] \o <<"_">> \o ToStr(k)

\* C8 happens: 'Score' three times over becomes 'Score', 'Score_1', 'Score_2'
C8_Witness ==
    /\ pc = "loaded"
    /\ Len(data) >= 2
    /\ Head(data) = [i \in 1..3 |-> <<"S","c","o","r","e">>]
    /\ df.columns = << <<"S","c","o","r","e">>,
                       <<"S","c","o","r","e","_","1">>,
                       <<"S","c","o","r","e","_","2">> >>

\* C9: every failure while loading or building a view is caught and the run
\* goes on to render the tabs; only a missing credential or the absence of
\* any sheet ID stops the run, and then nothing is loaded or rendered after.
C9_EveryFailureCaught ==
    /\ pc # "crashed"
    /\ raised = "none"
    /\ pc = "stopped" => ((~secrets.cred \/ secrets.keys = {}) /\ tabs = <<>>)

\* C10: the names make_unique returns are pairwise distinct, so the table
\* load_sheet builds never has two columns of the same name.
C10_ColumnNamesDistinct ==
    pc # "start" =>
        \A i, j \in 1..Len(df.columns) : i # j => df.columns[i] # df.columns[j]

====
